---------------------------- MODULE Spec2Model ----------------------------
(***************************************************************************)
(* A model of goupdate/slicemap: SliceMap[K, V], a map from a key to a     *)
(* sorted, duplicate-free slice of values.                                 *)
(*                                                                         *)
(* The model is of src/slicemap.go, the variant that keeps the key index   *)
(* in a sync.Map and guards the slices with an RWMutex.  Go's memory is    *)
(* modelled as far as the code depends on it: `cell` holds the slice       *)
(* headers the map's *[]V values point to, `mem` the backing arrays the    *)
(* headers point into.  A header is [arr, off, len]; its capacity is the   *)
(* rest of the array from off on.                                          *)
(***************************************************************************)
EXTENDS Integers, Sequences, FiniteSets, TLC

\* ------------------------------------------------------------- bounds

\* Keys are 1..NumKeys.
NumKeys == 2
\* Values are 1..MaxVal; 0 is the zero value of V that Go leaves in spare capacity.
MaxVal == 3
\* AddSlice is called with batches of at most MaxBatch values.
MaxBatch == 3
\* The concurrent specifications run NumThreads threads,
NumThreads == 2
\* on the values 1..MaxConcVal,
MaxConcVal == 2
\* each thread making at most MaxCalls calls where the calls are counted.
MaxCalls == 2

Keys == 1..NumKeys
Values == 1..MaxVal
Threads == 1..NumThreads
ConcValues == 1..MaxConcVal

\* The nil pointer, and the array of a slice that has no storage.
Nil == 0

\* ------------------------------------------------- Go slices and arrays

Min(a, b) == IF a < b THEN a ELSE b

Zeros(n) == [i \in 1..n |-> 0]

\* The first id (from 1) that is not in use in the function f.
FreshId(f) ==
  CHOOSE i \in 1..(Cardinality(DOMAIN f) + 1) :
    /\ i \notin DOMAIN f
    /\ \A j \in 1..(i - 1) : j \in DOMAIN f

\* cap(s)
Cap(m, h) == IF h.arr = Nil THEN 0 ELSE Len(m[h.arr]) - h.off

\* s[i], i counted from 0 as in Go
At(m, h, i) == m[h.arr][h.off + i + 1]

\* The elements of s, as a sequence.
Elems(m, h) == [i \in 1..h.len |-> m[h.arr][h.off + i]]

\* s[lo:hi]
Reslice(h, lo, hi) == [arr |-> h.arr, off |-> h.off + lo, len |-> hi - lo]

\* s[i] = v
SetAt(m, h, i, v) == [m EXCEPT ![h.arr][h.off + i + 1] = v]

\* The nil slice.
NilSlice == [arr |-> Nil, off |-> 0, len |-> 0]

\* A new array holding s (a composite literal, make): the memory and the header.
\* A slice of no capacity has no storage.
NewArray(m, s) ==
  IF Len(s) = 0
    THEN [mem |-> m, hdr |-> NilSlice]
    ELSE LET a == FreshId(m)
         IN [mem |-> [x \in DOMAIN m \cup {a} |-> IF x = a THEN s ELSE m[x]],
             hdr |-> [arr |-> a, off |-> 0, len |-> Len(s)]]

\* The capacity append gives the array it allocates when `needed` elements do
\* not fit in oldcap: twice the old one, or what is needed when that is more.
growslice(oldcap, needed) ==
  IF needed > 2 * oldcap THEN needed ELSE 2 * oldcap

\* Writes the sequence s into the array of h from element i (counted from 0) on:
\* the memmove of copy and of an append that fits.
Move(m, h, i, s) ==
  IF Len(s) = 0 THEN m
  ELSE [m EXCEPT ![h.arr] =
          [j \in 1..Len(@) |->
             IF j > h.off + i /\ j <= h.off + i + Len(s)
               THEN s[j - h.off - i] ELSE @[j]]]

\* append(s, vs...): in place when the capacity allows, else into a new array.
append(m, h, vs) ==
  LET n == h.len + Len(vs)
  IN IF Len(vs) = 0 THEN [mem |-> m, hdr |-> h]
     ELSE IF n <= Cap(m, h)
       THEN [mem |-> Move(m, h, h.len, vs), hdr |-> [h EXCEPT !.len = n]]
       ELSE LET r == NewArray(m, Elems(m, h) \o vs
                                   \o Zeros(growslice(Cap(m, h), n) - n))
            IN [mem |-> r.mem, hdr |-> [r.hdr EXCEPT !.len = n]]

\* copy(dst, src), src given by its elements: min(len(dst), len(src)) elements.
Copy(m, dst, src) == Move(m, dst, 0, SubSeq(src, 1, Min(dst.len, Len(src))))

\* slices.Clone(s): the elements in an array of their own.
Clone(m, h) == NewArray(m, Elems(m, h))

\* ------------------------------------------------------------- sort.Search

\* Mutant of SearchLoop: the predicate is > where the code has >=.
RECURSIVE SearchLoopStrict(_, _, _, _, _)
SearchLoopStrict(m, h, value, i, j) ==
  IF i < j
    THEN LET mid == (i + j) \div 2
         IN IF ~(At(m, h, mid) > value)
              THEN SearchLoopStrict(m, h, value, mid + 1, j)
              ELSE SearchLoopStrict(m, h, value, i, mid)
    ELSE i

RECURSIVE SearchLoop(_, _, _, _, _)
SearchLoop(m, h, value, i, j) ==
  IF i < j
    THEN LET mid == (i + j) \div 2
         IN IF ~(At(m, h, mid) >= value)
              THEN SearchLoop(m, h, value, mid + 1, j)
              ELSE SearchLoop(m, h, value, i, mid)
    ELSE i

\* sort.Search(len(*slice), func(i int) bool { return (*slice)[i] >= value })
sortSearch(m, h, value) == SearchLoop(m, h, value, 0, h.len)

\* ------------------------------------------------------------- sync.Map

\* sm.data.Load(key): the stored pointer, Nil when the key is not there.
Load(d, key) == IF key \in DOMAIN d THEN d[key] ELSE Nil

\* sm.data.Store(key, p)
Store(d, key, p) == [k \in DOMAIN d \cup {key} |-> IF k = key THEN p ELSE d[k]]

\* sm.data.Delete(key)
MapDelete(d, key) == [k \in DOMAIN d \ {key} |-> d[k]]

\* A new cell holding header h (the & of a slice): the cells and the pointer.
NewCell(c, h) ==
  LET p == FreshId(c)
  IN [cell |-> [x \in DOMAIN c \cup {p} |-> IF x = p THEN h ELSE c[x]], ptr |-> p]

\* ------------------------------------------------------------- Add

\* Mutant of AddLocked: the binary search's "already exists" return is left out.
AddLockedNoCheck(S, key, value, p) ==
  IF p # Nil
    THEN
      LET h == S.cell[p]
          m == S.mem
      IN IF h.len > 0 /\ value < At(m, h, 0)
           THEN LET lit == NewArray(m, <<value>>)
                    r == append(lit.mem, lit.hdr, Elems(m, h))
                IN [S EXCEPT !.mem = r.mem, !.cell[p] = r.hdr]
         ELSE IF h.len > 0 /\ value > At(m, h, h.len - 1)
           THEN LET r == append(m, h, <<value>>)
                IN [S EXCEPT !.mem = r.mem, !.cell[p] = r.hdr]
         ELSE IF h.len > 0 /\ (At(m, h, 0) = value \/ At(m, h, h.len - 1) = value)
           THEN S
         ELSE
           LET i == sortSearch(m, h, value)
               r == append(m, h, <<value>>)
               s == r.hdr
               m2 == Copy(r.mem, Reslice(s, i + 1, s.len),
                          Elems(r.mem, Reslice(s, i, s.len)))
           IN [S EXCEPT !.mem = SetAt(m2, s, i, value), !.cell[p] = s]
    ELSE
      LET lit == NewArray(S.mem, <<value>>)
          c == NewCell(S.cell, lit.hdr)
      IN [data |-> Store(S.data, key, c.ptr), cell |-> c.cell, mem |-> lit.mem]

\* The body of Add after sm.data.Load(key) returned p (Nil: the key is not
\* there), on the state S = [data, cell, mem].
AddLocked(S, key, value, p) ==
  IF p # Nil
    THEN
      LET h == S.cell[p]
          m == S.mem
      IN IF h.len > 0 /\ value < At(m, h, 0)
           THEN \* Insert at the beginning
                LET lit == NewArray(m, <<value>>)
                    r == append(lit.mem, lit.hdr, Elems(m, h))
                IN [S EXCEPT !.mem = r.mem, !.cell[p] = r.hdr]
         ELSE IF h.len > 0 /\ value > At(m, h, h.len - 1)
           THEN \* Insert at the end
                LET r == append(m, h, <<value>>)
                IN [S EXCEPT !.mem = r.mem, !.cell[p] = r.hdr]
         ELSE IF h.len > 0 /\ (At(m, h, 0) = value \/ At(m, h, h.len - 1) = value)
           THEN S
         ELSE
           LET i == sortSearch(m, h, value)
           IN IF i < h.len /\ At(m, h, i) = value
                THEN S
                ELSE LET r == append(m, h, <<value>>)
                         s == r.hdr
                         m2 == Copy(r.mem, Reslice(s, i + 1, s.len),
                                    Elems(r.mem, Reslice(s, i, s.len)))
                     IN [S EXCEPT !.mem = SetAt(m2, s, i, value), !.cell[p] = s]
    ELSE
      LET lit == NewArray(S.mem, <<value>>)
          c == NewCell(S.cell, lit.hdr)
      IN [data |-> Store(S.data, key, c.ptr), cell |-> c.cell, mem |-> lit.mem]

\* Add(key, value), run alone from Lock to Unlock.
AddOp(S, key, value) == AddLocked(S, key, value, Load(S.data, key))

\* ------------------------------------------------------------- Delete

\* Mutant of DeleteSlice: the element the binary search stops at is removed
\* without the test that it is the value.
DeleteSliceNoCheck(S, value, p) ==
  LET h == S.cell[p]
      m == S.mem
  IN IF h.len > 0 /\ value = At(m, h, 0)
       THEN [st |-> [S EXCEPT !.cell[p] = Reslice(h, 1, h.len)], removed |-> TRUE]
     ELSE IF h.len > 0 /\ value = At(m, h, h.len - 1)
       THEN [st |-> [S EXCEPT !.cell[p] = Reslice(h, 0, h.len - 1)], removed |-> TRUE]
     ELSE IF h.len > 0 /\ (value < At(m, h, 0) \/ value > At(m, h, h.len - 1))
       THEN [st |-> S, removed |-> FALSE]
     ELSE
       LET i == sortSearch(m, h, value)
       IN IF i < h.len
            THEN LET r == append(m, Reslice(h, 0, i),
                                 Elems(m, Reslice(h, i + 1, h.len)))
                 IN [st |-> [S EXCEPT !.mem = r.mem, !.cell[p] = r.hdr],
                     removed |-> TRUE]
            ELSE [st |-> S, removed |-> FALSE]

\* What Delete does to the slice p points to: the state, and whether a value
\* was removed (the branches that go on to test len(*slice) == 0).
DeleteSlice(S, value, p) ==
  LET h == S.cell[p]
      m == S.mem
  IN IF h.len > 0 /\ value = At(m, h, 0)
       THEN \* Remove from the beginning
            [st |-> [S EXCEPT !.cell[p] = Reslice(h, 1, h.len)], removed |-> TRUE]
     ELSE IF h.len > 0 /\ value = At(m, h, h.len - 1)
       THEN \* Remove from the end
            [st |-> [S EXCEPT !.cell[p] = Reslice(h, 0, h.len - 1)], removed |-> TRUE]
     ELSE IF h.len > 0 /\ (value < At(m, h, 0) \/ value > At(m, h, h.len - 1))
       THEN [st |-> S, removed |-> FALSE]
     ELSE
       LET i == sortSearch(m, h, value)
       IN IF i < h.len /\ At(m, h, i) = value
            THEN LET r == append(m, Reslice(h, 0, i),
                                 Elems(m, Reslice(h, i + 1, h.len)))
                 IN [st |-> [S EXCEPT !.mem = r.mem, !.cell[p] = r.hdr],
                     removed |-> TRUE]
            ELSE [st |-> S, removed |-> FALSE]

\* Mutant of DropIfEmpty: the key stays when its slice is empty.
DropNever(S, key, p) == S

\* if len(*slice) == 0 { sm.data.Delete(key) }
DropIfEmpty(S, key, p) ==
  IF S.cell[p].len = 0 THEN [S EXCEPT !.data = MapDelete(S.data, key)] ELSE S

\* The body of Delete after sm.data.Load(key) returned p.
DeleteLocked(S, key, value, p) ==
  IF p # Nil
    THEN LET r == DeleteSlice(S, value, p)
         IN IF r.removed THEN DropIfEmpty(r.st, key, p) ELSE r.st
    ELSE S

\* Delete(key, value), run alone from Lock to Unlock.
DeleteOp(S, key, value) == DeleteLocked(S, key, value, Load(S.data, key))

\* ------------------------------------------------------------- DeleteKey

\* DeleteKey(key): sm.data.Delete(key), without the lock.
DeleteKeyOp(S, key) == [S EXCEPT !.data = MapDelete(S.data, key)]

\* ------------------------------------------------------------- AddSlice

\* for j := i; j > a && data[j] < data[j-1]; j-- { swap }
RECURSIVE InsertDown(_, _)
InsertDown(s, j) ==
  IF j > 1 /\ s[j] < s[j - 1]
    THEN InsertDown([s EXCEPT ![j] = s[j - 1], ![j - 1] = s[j]], j - 1)
    ELSE s

\* The insertion sort slices.Sort runs on a short slice, from element i on.
RECURSIVE InsertionSort(_, _)
InsertionSort(s, i) ==
  IF i <= Len(s) THEN InsertionSort(InsertDown(s, i), i + 1) ELSE s

\* Mutant of slicesSort: the batch is left in the caller's order.
slicesSortNot(m, h) == m

\* slices.Sort(values): sorts the caller's array in place.
slicesSort(m, h) == Move(m, h, 0, InsertionSort(Elems(m, h), 2))

\* The loop of slices.Compact: s[k] is kept, at place i, when it differs from
\* s[k-1] (i and k counted from 0, the sequence from 1).
RECURSIVE CompactLoop(_, _, _)
CompactLoop(s, i, k) ==
  IF k < Len(s)
    THEN IF s[k + 1] # s[k]
           THEN CompactLoop(IF i # k THEN [s EXCEPT ![i + 1] = s[k + 1]] ELSE s,
                            i + 1, k + 1)
           ELSE CompactLoop(s, i, k + 1)
    ELSE [s |-> s, n |-> i]

\* values = slices.Compact(values): in place, the result a prefix of values.
slicesCompact(m, h) ==
  IF h.len < 2 THEN [mem |-> m, hdr |-> h]
  ELSE LET r == CompactLoop(Elems(m, h), 1, 1)
       IN [mem |-> Move(m, h, 0, r.s), hdr |-> Reslice(h, 0, r.n)]

\* Mutant of MergeLoop: on equal heads only a's pointer advances, so the value
\* is appended a second time from b.
RECURSIVE MergeLoopTwice(_, _, _, _, _)
MergeLoopTwice(a, b, i, j, result) ==
  IF i < Len(a) /\ j < Len(b)
    THEN IF a[i + 1] <= b[j + 1]
           THEN MergeLoopTwice(a, b, i + 1, j, Append(result, a[i + 1]))
           ELSE MergeLoopTwice(a, b, i, j + 1, Append(result, b[j + 1]))
  ELSE IF i < Len(a)
    THEN MergeLoopTwice(a, b, i + 1, j, Append(result, a[i + 1]))
  ELSE IF j < Len(b)
    THEN MergeLoopTwice(a, b, i, j + 1, Append(result, b[j + 1]))
  ELSE result

\* The loops of mergeUniqueSorted on a and b, i and j counted from 0.
RECURSIVE MergeLoop(_, _, _, _, _)
MergeLoop(a, b, i, j, result) ==
  IF i < Len(a) /\ j < Len(b)
    THEN IF a[i + 1] < b[j + 1]
           THEN MergeLoop(a, b, i + 1, j, Append(result, a[i + 1]))
         ELSE IF a[i + 1] > b[j + 1]
           THEN MergeLoop(a, b, i, j + 1, Append(result, b[j + 1]))
         ELSE MergeLoop(a, b, i + 1, j + 1, Append(result, a[i + 1]))
  ELSE IF i < Len(a)
    THEN MergeLoop(a, b, i + 1, j, Append(result, a[i + 1]))
  ELSE IF j < Len(b)
    THEN MergeLoop(a, b, i, j + 1, Append(result, b[j + 1]))
  ELSE result

\* mergeUniqueSorted(a, b): the result in a new array of capacity len(a)+len(b).
mergeUniqueSorted(m, ha, hb) ==
  LET res == MergeLoop(Elems(m, ha), Elems(m, hb), 0, 0, <<>>)
      r == NewArray(m, res \o Zeros(ha.len + hb.len - Len(res)))
  IN [mem |-> r.mem, hdr |-> [r.hdr EXCEPT !.len = Len(res)]]

\* slices.Sort(values); values = slices.Compact(values)
SortCompact(m, values) == slicesCompact(slicesSort(m, values), values)

\* The body of AddSlice after sm.data.Load(key) returned p, values sorted and
\* compacted.
AddSliceLocked(S, key, values, p) ==
  IF p = Nil
    THEN LET ns == NewArray(S.mem, Zeros(values.len))
             m2 == Copy(ns.mem, ns.hdr, Elems(ns.mem, values))
             c == NewCell(S.cell, ns.hdr)
         IN [data |-> Store(S.data, key, c.ptr), cell |-> c.cell, mem |-> m2]
    ELSE LET r == mergeUniqueSorted(S.mem, S.cell[p], values)
         IN [data |-> Store(S.data, key, p),
             cell |-> [S.cell EXCEPT ![p] = r.hdr],
             mem |-> r.mem]

\* AddSlice(key, values), run alone from Lock to Unlock, on the caller's slice
\* `values` (a header into mem).
AddSliceOp(S, key, values) ==
  LET sc == SortCompact(S.mem, values)
  IN AddSliceLocked([S EXCEPT !.mem = sc.mem], key, sc.hdr, Load(S.data, key))

\* ------------------------------------------------------------- reads

\* Mutant of GetKeyOp: the pointer the map holds is returned, without a clone.
GetKeyOpNoClone(S, key) == [st |-> S, ret |-> Load(S.data, key)]

\* GetKey(key): the pointer returned (Nil when the key is not there) and the
\* state, with the clone in it.
GetKeyOp(S, key) ==
  LET p == Load(S.data, key)
  IN IF p # Nil
       THEN LET cpy == Clone(S.mem, S.cell[p])
                c == NewCell(S.cell, cpy.hdr)
            IN [st |-> [S EXCEPT !.cell = c.cell, !.mem = cpy.mem], ret |-> c.ptr]
       ELSE [st |-> S, ret |-> Nil]

\* Mutant of ExistLocked: the last element counts as out of the range.
ExistLockedShort(S, value, p) ==
  IF p # Nil
    THEN LET h == S.cell[p]
             m == S.mem
         IN IF h.len = 0 THEN FALSE
            ELSE IF value < At(m, h, 0) \/ value >= At(m, h, h.len - 1) THEN FALSE
            ELSE LET i == sortSearch(m, h, value)
                 IN i < h.len /\ At(m, h, i) = value
    ELSE FALSE

\* The body of Exist after sm.data.Load(key) returned p.
ExistLocked(S, value, p) ==
  IF p # Nil
    THEN LET h == S.cell[p]
             m == S.mem
         IN IF h.len = 0 THEN FALSE
            ELSE IF value < At(m, h, 0) \/ value > At(m, h, h.len - 1) THEN FALSE
            ELSE LET i == sortSearch(m, h, value)
                 IN i < h.len /\ At(m, h, i) = value
    ELSE FALSE

\* Exist(key, value)
ExistOp(S, key, value) == ExistLocked(S, value, Load(S.data, key))

\* count += int64(len(*slice)) over the keys ks that Range visits.
RECURSIVE CountOver(_, _)
CountOver(S, ks) ==
  IF ks = {} THEN 0
  ELSE LET k == CHOOSE x \in ks : TRUE
       IN S.cell[S.data[k]].len + CountOver(S, ks \ {k})

\* Count(), with nothing running beside it.
CountOp(S) == CountOver(S, DOMAIN S.data)

\* IterateKeys(f): the keys f is called with, when Range visits the keys in
\* the order `order` and f returns false at its stop-th call (never, when
\* stop is 0).
IterateKeysOp(order, stop) ==
  IF stop = 0 THEN order ELSE SubSeq(order, 1, Min(stop, Len(order)))

\* Mutant of VisitValues: after f returns false the loop over the values ends
\* but Range goes on.
RECURSIVE VisitValuesBreak(_, _, _, _, _)
VisitValuesBreak(k, cpy, i, calls, stop) ==
  IF i > Len(cpy) THEN [calls |-> calls, go |-> TRUE]
  ELSE LET c == Append(calls, <<k, cpy[i]>>)
       IN IF Len(c) = stop THEN [calls |-> c, go |-> TRUE]
          ELSE VisitValuesBreak(k, cpy, i + 1, c, stop)

\* for _, v := range cpy { if !f(k, v) { return false } }; return true:
\* the calls of f so far, and what the function returns to Range.  f returns
\* false at its stop-th call (never, when stop is 0).
RECURSIVE VisitValues(_, _, _, _, _)
VisitValues(k, cpy, i, calls, stop) ==
  IF i > Len(cpy) THEN [calls |-> calls, go |-> TRUE]
  ELSE LET c == Append(calls, <<k, cpy[i]>>)
       IN IF Len(c) = stop THEN [calls |-> c, go |-> FALSE]
          ELSE VisitValues(k, cpy, i + 1, c, stop)

\* sm.data.Range over the keys in the order `order`, from the n-th on: for
\* each key the clone of its slice is visited, until the function returns
\* false.
RECURSIVE RangeValues(_, _, _, _, _)
RangeValues(S, order, n, calls, stop) ==
  IF n > Len(order) THEN calls
  ELSE LET cpy == Clone(S.mem, S.cell[S.data[order[n]]])
           r == VisitValues(order[n], Elems(cpy.mem, cpy.hdr), 1, calls, stop)
       IN IF r.go THEN RangeValues(S, order, n + 1, r.calls, stop) ELSE r.calls

\* IterateValues(f), with nothing running beside it: the (key, value) pairs f
\* is called with, in the order of the calls.
IterateValuesOp(S, order, stop) == RangeValues(S, order, 1, <<>>, stop)

\* ------------------------------------------------------------- the caller

\* (*r)[i] = v through a pointer r that GetKey returned.
CallerStore(S, r, i, v) == [S EXCEPT !.mem = SetAt(S.mem, S.cell[r], i, v)]

\* ------------------------------------------- the plain-map variant
\* src/unnamed/part_000: sm.data is a map[K]*[]V and every method holds the
\* RWMutex from its first line to its return.  S.data is that map.

PlainAddOp(S, key, value) == AddLocked(S, key, value, Load(S.data, key))

PlainDeleteOp(S, key, value) == DeleteLocked(S, key, value, Load(S.data, key))

\* delete(sm.data, key)
PlainDeleteKeyOp(S, key) == [S EXCEPT !.data = MapDelete(S.data, key)]

\* The body of AddSlice after slice, was := sm.data[key], values sorted and
\* compacted: the map is written only when the key was not there.
PlainAddSliceLocked(S, key, values, p) ==
  IF p = Nil
    THEN LET ns == NewArray(S.mem, Zeros(values.len))
             m2 == Copy(ns.mem, ns.hdr, Elems(ns.mem, values))
             c == NewCell(S.cell, ns.hdr)
         IN [data |-> Store(S.data, key, c.ptr), cell |-> c.cell, mem |-> m2]
    ELSE LET r == mergeUniqueSorted(S.mem, S.cell[p], values)
         IN [data |-> S.data,
             cell |-> [S.cell EXCEPT ![p] = r.hdr],
             mem |-> r.mem]

PlainAddSliceOp(S, key, values) ==
  LET sc == SortCompact(S.mem, values)
  IN PlainAddSliceLocked([S EXCEPT !.mem = sc.mem], key, sc.hdr, Load(S.data, key))

\* GetKey(key): `return slice`, the pointer the map holds.
PlainGetKeyOp(S, key) == [st |-> S, ret |-> Load(S.data, key)]

PlainExistOp(S, key, value) == ExistLocked(S, value, Load(S.data, key))

\* count += int64(len(*slice)) over the keys of sm.data
PlainCountOp(S) == CountOver(S, DOMAIN S.data)

\* ------------------------------------------------------------- state

VARIABLES
  data,   \* sm.data: key -> pointer to the key's slice header
  cell,   \* pointer -> slice header [arr, off, len]
  mem,    \* array id -> the array's elements
  held,   \* the pointer the caller kept from a GetKey (Nil: none)
  last,   \* the call the sequential caller made last, with its result
  th,     \* thread -> its call in progress, its place in it and its locals
  rw,     \* the RWMutex: w the thread in or past Lock (0: none), r the readers
  abs,    \* key -> the set of values the calls made so far amount to, each
          \* call taken at the step where it acts on the map
  plain   \* the plain-map variant's container beside this one: its data,
          \* cell and mem, the pointer its caller kept from a GetKey, and
          \* its RWMutex rw

vars == <<data, cell, mem, held, last, th, rw, abs, plain>>

\* what a sequential caller of the sync.Map variant leaves alone
conc == <<th, rw, abs, plain>>

St == [data |-> data, cell |-> cell, mem |-> mem]

EmptyFn == [x \in {} |-> 0]

\* NewSliceMap() of the plain-map variant, its caller holding nothing.
NewPlain ==
  [data |-> EmptyFn, cell |-> EmptyFn, mem |-> EmptyFn, held |-> Nil,
   rw |-> [w |-> 0, r |-> {}]]

\* The plain-map variant's container.
PSt == [data |-> plain.data, cell |-> plain.cell, mem |-> plain.mem]

Range(f) == {f[x] : x \in DOMAIN f}

\* The elements of the set s of integers, in increasing order.
RECURSIVE Ascending(_)
Ascending(s) ==
  IF s = {} THEN <<>>
  ELSE LET x == CHOOSE y \in s : \A z \in s : y <= z
       IN <<x>> \o Ascending(s \ {x})

\* s without Nil and without what it repeats, in the order of s.
RECURSIVE Firsts(_, _)
Firsts(s, acc) ==
  IF s = <<>> THEN acc
  ELSE IF Head(s) = Nil \/ Head(s) \in Range(acc) THEN Firsts(Tail(s), acc)
  ELSE Firsts(Tail(s), Append(acc, Head(s)))

IndexOf(s, x) == IF x = Nil THEN Nil ELSE CHOOSE i \in DOMAIN s : s[i] = x

\* The cells that the map, then the pointers ptrs, reach, each once, in the
\* order in which they are reached (the keys in increasing order).
Reached(S, ptrs) ==
  LET ks == Ascending(DOMAIN S.data)
  IN Firsts([i \in 1..Len(ks) |-> S.data[ks[i]]] \o ptrs, <<>>)

\* The arrays that the cells pl, then the slices hdrs, reach, each once.
ReachedArrays(S, pl, hdrs) ==
  Firsts([i \in 1..Len(pl) |-> S.cell[pl[i]].arr]
           \o [i \in 1..Len(hdrs) |-> hdrs[i].arr], <<>>)

\* S, ptrs and hdrs with the cells pl and the arrays al numbered by their
\* places in pl and al.
Renumbered(S, ptrs, hdrs, pl, al) ==
  [data |-> [k \in DOMAIN S.data |-> IndexOf(pl, S.data[k])],
   cell |-> [i \in 1..Len(pl) |-> [S.cell[pl[i]] EXCEPT !.arr = IndexOf(al, @)]],
   mem |-> [i \in 1..Len(al) |-> S.mem[al[i]]],
   ptrs |-> [i \in 1..Len(ptrs) |-> IndexOf(pl, ptrs[i])],
   hdrs |-> [i \in 1..Len(hdrs) |-> [hdrs[i] EXCEPT !.arr = IndexOf(al, @)]]]

\* Go's garbage collector: the cells and arrays that neither the map nor the
\* pointers ptrs nor the slices hdrs reach are gone.  Pointers and array ids are
\* not observable in Go beyond their identity, so what is left is numbered in
\* the order in which it is reached: from the keys in increasing order, then
\* from ptrs, then from hdrs.  (The two lists are bound as values, so that
\* each is worked out once.)
Collect(S, ptrs, hdrs) ==
  CHOOSE G \in UNION {{Renumbered(S, ptrs, hdrs, pl, al) :
                          al \in {ReachedArrays(S, pl, hdrs)}} :
                        pl \in {Reached(S, ptrs)}} : TRUE

\* The key -> sequence mapping the container holds.
Seqs == [k \in DOMAIN data |-> Elems(mem, cell[data[k]])]

\* no call in progress or returned: the caller is about to make its next call
Idle == [op |-> "idle", key |-> 0, val |-> 0, arg |-> <<>>, ret |-> 0]

Call(op, key, val, arg, ret) ==
  [op |-> op, key |-> key, val |-> val, arg |-> arg, ret |-> ret]

\* The state becomes S, the caller keeps pointer r.
Becomes(S, r) ==
  LET G == Collect(S, <<r>>, <<>>)
  IN /\ data' = G.data
     /\ cell' = G.cell
     /\ mem' = G.mem
     /\ held' = G.ptrs[1]

\* The batches AddSlice is called with: unsorted, with duplicates.
Batches == UNION {[1..n -> Values] : n \in 0..MaxBatch}

\* The orders in which Range can visit the keys ks.
Orders(ks) ==
  {o \in [1..Cardinality(ks) -> ks] : \A i, j \in DOMAIN o : i # j => o[i] # o[j]}

\* What GetKey returned, as the caller reads it: the elements, or "nil".
Returned(S, p) == IF p = Nil THEN "nil" ELSE Elems(S.mem, S.cell[p])

\* A thread that is in no call, with n calls left to make.
IdleThread(n) ==
  [pc |-> "idle", op |-> "idle", key |-> 0, val |-> 0, arg |-> <<>>, ret |-> 0,
   ok |-> FALSE, got |-> <<>>, p |-> Nil, values |-> NilSlice, todo |-> {},
   acc |-> 0, i |-> 0, seen |-> {}, snaps |-> {}, left |-> n]

\* NewSliceMap(), and nobody in a call.
Init ==
  /\ data = EmptyFn
  /\ cell = EmptyFn
  /\ mem = EmptyFn
  /\ held = Nil
  /\ last = Idle
  /\ th = [t \in Threads |-> IdleThread(0)]
  /\ rw = [w |-> 0, r |-> {}]
  /\ abs = [k \in Keys |-> {}]
  /\ plain = NewPlain

Add(key, value) ==
  /\ last.op = "idle"
  /\ Becomes(AddOp(St, key, value), held)
  /\ last' = Call("Add", key, value, <<>>, 0)
  /\ UNCHANGED conc

Delete(key, value) ==
  /\ last.op = "idle"
  /\ Becomes(DeleteOp(St, key, value), held)
  /\ last' = Call("Delete", key, value, <<>>, 0)
  /\ UNCHANGED conc

DeleteKey(key) ==
  /\ last.op = "idle"
  /\ Becomes(DeleteKeyOp(St, key), held)
  /\ last' = Call("DeleteKey", key, 0, <<>>, 0)
  /\ UNCHANGED conc

\* The caller's batch is a slice of its own; after the call the caller reads
\* it (the result kept in last) and drops it.
AddSlice(key, batch) ==
  /\ last.op = "idle"
  /\ LET arg == NewArray(mem, batch)
         S2 == AddSliceOp([St EXCEPT !.mem = arg.mem], key, arg.hdr)
     IN /\ Becomes(S2, held)
        /\ last' = Call("AddSlice", key, 0, batch, Elems(S2.mem, arg.hdr))
  /\ UNCHANGED conc

\* The caller reads what GetKey returned and drops the pointer.
GetKey(key) ==
  /\ last.op = "idle"
  /\ LET r == GetKeyOp(St, key)
     IN last' = Call("GetKey", key, 0, <<>>, Returned(r.st, r.ret))
  /\ UNCHANGED <<data, cell, mem, held, conc>>

Exist(key, value) ==
  /\ last.op = "idle"
  /\ last' = Call("Exist", key, value, <<>>, ExistOp(St, key, value))
  /\ UNCHANGED <<data, cell, mem, held, conc>>

Count ==
  /\ last.op = "idle"
  /\ last' = Call("Count", 0, 0, <<>>, CountOp(St))
  /\ UNCHANGED <<data, cell, mem, held, conc>>

IterateKeys(order, stop) ==
  /\ last.op = "idle"
  /\ last' = Call("IterateKeys", 0, stop, <<>>, IterateKeysOp(order, stop))
  /\ UNCHANGED <<data, cell, mem, held, conc>>

IterateValues(order, stop) ==
  /\ last.op = "idle"
  /\ last' = Call("IterateValues", 0, stop, <<>>, IterateValuesOp(St, order, stop))
  /\ UNCHANGED <<data, cell, mem, held, conc>>

\* The caller has seen the result and goes on to its next call.
Resume ==
  /\ last.op # "idle"
  /\ last' = Idle
  /\ UNCHANGED <<data, cell, mem, held, conc>>

Next ==
  \/ \E k \in Keys, v \in Values : Add(k, v)
  \/ \E k \in Keys, v \in Values : Delete(k, v)
  \/ \E k \in Keys : DeleteKey(k)
  \/ \E k \in Keys, b \in Batches : AddSlice(k, b)
  \/ \E k \in Keys : GetKey(k)
  \/ \E k \in Keys, v \in Values : Exist(k, v)
  \/ Count
  \/ \E o \in Orders(DOMAIN data), n \in 0..NumKeys : IterateKeys(o, n)
  \/ \E o \in Orders(DOMAIN data), n \in 0..NumKeys : IterateValues(o, n)
  \/ Resume

Spec == Init /\ [][Next]_vars

\* GetKey(key), and the caller keeps the pointer it got (it lets go of the one
\* it had).
GetKeyHold(key) ==
  /\ last.op = "idle"
  /\ LET r == GetKeyOp(St, key)
     IN /\ Becomes(r.st, r.ret)
        /\ last' = Call("GetKey", key, 0, <<>>, Returned(r.st, r.ret))
  /\ UNCHANGED conc

\* The caller writes v at index i of the slice it got from GetKey.
CallerWrite(i, v) ==
  /\ last.op = "idle"
  /\ held # Nil
  /\ i < cell[held].len
  /\ Becomes(CallerStore(St, held, i, v), held)
  /\ last' = Call("CallerWrite", 0, v, <<>>, i)
  /\ UNCHANGED conc

\* A caller that keeps what GetKey(1) returned, writes to it and goes on
\* calling the mutators of key 1.
NextAlias ==
  \/ \E v \in Values : Add(1, v)
  \/ \E v \in Values : Delete(1, v)
  \/ DeleteKey(1)
  \/ \E b \in Batches : AddSlice(1, b)
  \/ GetKeyHold(1)
  \/ \E i \in 0..(MaxBatch - 1), v \in Values : CallerWrite(i, v)
  \/ Resume

SpecAlias == Init /\ [][NextAlias]_vars

\* The set of the elements of the sequence s.
ToSet(s) == {s[i] : i \in DOMAIN s}

\* The sequence key k holds in state S, the empty one when the key is not there.
SeqOf(S, k) ==
  IF k \in DOMAIN S.data THEN Elems(S.mem, S.cell[S.data[k]]) ELSE <<>>

\* ------------------------------------------------------------- threads

\* The total Count is after: the sum of the lengths of the stored slices.
RECURSIVE Total(_, _)
Total(S, ks) ==
  IF ks = {} THEN 0
  ELSE LET k == CHOOSE x \in ks : TRUE
       IN S.cell[S.data[k]].len + Total(S, ks \ {k})

\* The state becomes S and the threads T.  A thread that is in Count notes the
\* total the map holds at this instant, a thread that is in IterateValues
\* between Range's call with a key and the clone notes the sequence the key
\* holds at this instant, unless an Add is between its append and the write
\* of the value (the sequence is being shifted).  (S, T and the collected state are bound as values,
\* so that each is worked out once.)
Runs(S, T) ==
  \E S1 \in {S}, T1 \in {T} :
    \E G \in {Collect(S1, <<held>> \o [t \in Threads |-> T1[t].p],
                       [t \in Threads |-> T1[t].values])} :
      \E total \in {Total(G, DOMAIN G.data)} :
        /\ data' = G.data
        /\ cell' = G.cell
        /\ mem' = G.mem
        /\ th' = [t \in Threads |->
                    [T1[t] EXCEPT !.p = G.ptrs[t + 1],
                                  !.values = G.hdrs[t],
                                  !.seen = IF T1[t].op = "Count" /\ T1[t].pc # "done"
                                             THEN @ \cup {total} ELSE @,
                                  !.snaps = IF /\ T1[t].pc \in {"IterateValues_RLock",
                                                                "IterateValues_Clone"}
                                                 /\ \A u \in Threads :
                                                      T1[u].pc \notin {"Add_Copy", "Add_Set"}
                                              THEN @ \cup {SeqOf(G, T1[t].key)}
                                              ELSE @]]
        /\ UNCHANGED <<held, last, plain>>

\* Where a call starts.
FirstPc(op) ==
  CASE op = "Add" -> "Add_Lock"
    [] op = "Delete" -> "Delete_Lock"
    [] op = "DeleteKey" -> "DeleteKey_Delete"
    [] op = "AddSlice" -> "AddSlice_Lock"
    [] op = "Count" -> "Count_Range"
    [] op = "GetKey" -> "GetKey_Load"
    [] op = "Exist" -> "Exist_Load"
    [] op = "IterateValues" -> "IterateValues_Range"
    [] op = "IterateKeys" -> "IterateKeys_Range"
    [] op \in {"PlainIterateValues", "PlainIterateKeys"} -> "PlainIterate_RLock"

\* Thread t makes the call c = [op, key, val, arg]; n calls are left to it
\* after this one.  The batch of an AddSlice is a slice of the caller's.
Begin(t, c, n) ==
  /\ th[t].pc = "idle"
  /\ LET a == NewArray(mem, c.arg)
     IN Runs([St EXCEPT !.mem = a.mem],
             [th EXCEPT ![t] =
                [IdleThread(n) EXCEPT !.pc = FirstPc(c.op), !.op = c.op,
                                      !.key = c.key, !.val = c.val, !.arg = c.arg,
                                      !.values = a.hdr,
                                      !.todo = IF c.op \in {"Count", "IterateValues",
                                                           "IterateKeys",
                                                           "PlainIterateValues",
                                                           "PlainIterateKeys"}
                                                 THEN Keys ELSE {}]])
  /\ UNCHANGED <<rw, abs>>

\* sm.Lock() returned to t: t is the writer and the readers that were in are out.
Holding(t) == rw.w = t /\ rw.r = {}

\* sm.Lock(): t becomes the writer when there is none; from then on no reader
\* gets in, and Lock returns when the readers that are in have left.
WLock(t) ==
  /\ th[t].pc \in {"Add_Lock", "Delete_Lock", "AddSlice_Lock"}
  /\ rw.w = 0
  /\ rw' = [rw EXCEPT !.w = t]
  /\ th' = [th EXCEPT ![t].pc = CASE @ = "Add_Lock" -> "Add_Load"
                                  [] @ = "Delete_Lock" -> "Delete_Load"
                                  [] @ = "AddSlice_Lock" -> "AddSlice_Load"]
  /\ UNCHANGED <<data, cell, mem, held, last, abs, plain>>

\* defer sm.Unlock(), and the call returns.
Unlock(t) ==
  /\ th[t].pc = "Unlock"
  /\ rw' = [rw EXCEPT !.w = 0]
  /\ Runs(St, [th EXCEPT ![t] = IdleThread(th[t].left)])
  /\ UNCHANGED abs

\* Mutant of AddLoad: the write lock is given up after the Load.
AddLoadUnlocking(t) ==
  /\ th[t].pc = "Add_Load"
  /\ Holding(t)
  /\ Runs(St, [th EXCEPT ![t].pc = "Add_Body", ![t].p = Load(data, th[t].key)])
  /\ rw' = [rw EXCEPT !.w = 0]
  /\ UNCHANGED abs

\* Add: slice_, ok := sm.data.Load(key)
AddLoad(t) ==
  /\ th[t].pc = "Add_Load"
  /\ Holding(t)
  /\ Runs(St, [th EXCEPT ![t].pc = "Add_Body", ![t].p = Load(data, th[t].key)])
  /\ UNCHANGED <<rw, abs>>

\* Add: the insertion into *slice, or the Store of a new slice.
AddBody(t) ==
  /\ th[t].pc = "Add_Body"
  /\ Runs(AddLocked(St, th[t].key, th[t].val, th[t].p),
          [th EXCEPT ![t].pc = "Unlock", ![t].p = Nil])
  /\ abs' = [abs EXCEPT ![th[t].key] = @ \cup {th[t].val}]
  /\ UNCHANGED rw

\* Add gets to "Insert value at the index found": the key is there and the
\* value is neither beyond the ends of *slice nor in it.
AddInserts(S, value, p) ==
  /\ p # Nil
  /\ LET h == S.cell[p]
         m == S.mem
     IN /\ ~(h.len > 0 /\ value < At(m, h, 0))
        /\ ~(h.len > 0 /\ value > At(m, h, h.len - 1))
        /\ ~(h.len > 0 /\ (At(m, h, 0) = value \/ At(m, h, h.len - 1) = value))
        /\ LET i == sortSearch(m, h, value)
           IN ~(i < h.len /\ At(m, h, i) = value)

\* Add, with the insertion at the index found taken statement by statement:
\* here i := sort.Search(...) and *slice = append(*slice, value); the other
\* branches as in AddBody.
AddBodyInSteps(t) ==
  /\ th[t].pc = "Add_Body"
  /\ IF AddInserts(St, th[t].val, th[t].p)
       THEN LET h == cell[th[t].p]
                r == append(mem, h, <<th[t].val>>)
            IN /\ Runs([St EXCEPT !.mem = r.mem, !.cell[th[t].p] = r.hdr],
                       [th EXCEPT ![t].pc = "Add_Copy",
                                  ![t].i = sortSearch(mem, h, th[t].val)])
               /\ UNCHANGED abs
       ELSE /\ Runs(AddLocked(St, th[t].key, th[t].val, th[t].p),
                    [th EXCEPT ![t].pc = "Unlock", ![t].p = Nil])
            /\ abs' = [abs EXCEPT ![th[t].key] = @ \cup {th[t].val}]
  /\ UNCHANGED rw

\* Add: copy((*slice)[i+1:], (*slice)[i:])
AddCopy(t) ==
  /\ th[t].pc = "Add_Copy"
  /\ LET s == cell[th[t].p]
         i == th[t].i
     IN Runs([St EXCEPT !.mem = Copy(mem, Reslice(s, i + 1, s.len),
                                     Elems(mem, Reslice(s, i, s.len)))],
             [th EXCEPT ![t].pc = "Add_Set"])
  /\ UNCHANGED <<rw, abs>>

\* Add: (*slice)[i] = value
AddSet(t) ==
  /\ th[t].pc = "Add_Set"
  /\ Runs([St EXCEPT !.mem = SetAt(mem, cell[th[t].p], th[t].i, th[t].val)],
          [th EXCEPT ![t].pc = "Unlock", ![t].p = Nil, ![t].i = 0])
  /\ abs' = [abs EXCEPT ![th[t].key] = @ \cup {th[t].val}]
  /\ UNCHANGED rw

\* Delete: slice_, ok := sm.data.Load(key); nothing to do when !ok.
DeleteLoad(t) ==
  /\ th[t].pc = "Delete_Load"
  /\ Holding(t)
  /\ LET p == Load(data, th[t].key)
     IN Runs(St, [th EXCEPT ![t].pc = IF p = Nil THEN "Unlock" ELSE "Delete_Body",
                            ![t].p = p])
  /\ abs' = IF Load(data, th[t].key) = Nil
              THEN [abs EXCEPT ![th[t].key] = @ \ {th[t].val}] ELSE abs
  /\ UNCHANGED rw

\* Delete: the removal from *slice.
DeleteBody(t) ==
  /\ th[t].pc = "Delete_Body"
  /\ LET r == DeleteSlice(St, th[t].val, th[t].p)
     IN Runs(r.st, [th EXCEPT ![t].pc = IF r.removed THEN "Delete_Drop" ELSE "Unlock",
                              ![t].p = IF r.removed THEN @ ELSE Nil])
  /\ abs' = [abs EXCEPT ![th[t].key] = @ \ {th[t].val}]
  /\ UNCHANGED rw

\* Delete: if len(*slice) == 0 { sm.data.Delete(key) }
DeleteDrop(t) ==
  /\ th[t].pc = "Delete_Drop"
  /\ Runs(DropIfEmpty(St, th[t].key, th[t].p),
          [th EXCEPT ![t].pc = "Unlock", ![t].p = Nil])
  /\ UNCHANGED <<rw, abs>>

\* DeleteKey: sm.data.Delete(key), and the call returns.
DeleteKeyStep(t) ==
  /\ th[t].pc = "DeleteKey_Delete"
  /\ Runs(DeleteKeyOp(St, th[t].key), [th EXCEPT ![t] = IdleThread(th[t].left)])
  /\ abs' = [abs EXCEPT ![th[t].key] = {}]
  /\ UNCHANGED rw

\* AddSlice: slices.Sort, slices.Compact, then slice_, was := sm.data.Load(key)
AddSliceLoad(t) ==
  /\ th[t].pc = "AddSlice_Load"
  /\ Holding(t)
  /\ LET sc == SortCompact(mem, th[t].values)
     IN Runs([St EXCEPT !.mem = sc.mem],
             [th EXCEPT ![t].pc = "AddSlice_Store", ![t].values = sc.hdr,
                        ![t].p = Load(data, th[t].key)])
  /\ UNCHANGED <<rw, abs>>

\* AddSlice: the Store of the copy, or the merge into *slice and its Store.
AddSliceStore(t) ==
  /\ th[t].pc = "AddSlice_Store"
  /\ Runs(AddSliceLocked(St, th[t].key, th[t].values, th[t].p),
          [th EXCEPT ![t].pc = "Unlock", ![t].p = Nil, ![t].values = NilSlice])
  /\ abs' = [abs EXCEPT ![th[t].key] = @ \cup {th[t].arg[i] : i \in DOMAIN th[t].arg}]
  /\ UNCHANGED rw

\* Count: sm.data.Range goes to a key it has not been to, and calls the
\* function with the slice the key has then (no call when the key is not
\* there); after the last key Count returns.
CountRange(t) ==
  /\ th[t].pc = "Count_Range"
  /\ \/ /\ th[t].todo = {}
        /\ Runs(St, [th EXCEPT ![t].pc = "done", ![t].ret = th[t].acc])
     \/ \E k \in th[t].todo :
          Runs(St, [th EXCEPT ![t].todo = @ \ {k},
                              ![t].p = Load(data, k),
                              ![t].pc = IF Load(data, k) = Nil
                                          THEN "Count_Range" ELSE "Count_RLock"])
  /\ UNCHANGED <<rw, abs>>

\* Mutant of RLock: t gets in beside a writer.
RLockBesideWriter(t) ==
  /\ th[t].pc \in {"Count_RLock", "GetKey_RLock", "Exist_RLock", "IterateValues_RLock"}
  /\ rw' = [rw EXCEPT !.r = @ \cup {t}]
  /\ th' = [th EXCEPT ![t].pc = CASE @ = "Count_RLock" -> "Count_Read"
                                  [] @ = "GetKey_RLock" -> "GetKey_Clone"
                                  [] @ = "Exist_RLock" -> "Exist_Search"
                                  [] @ = "IterateValues_RLock" -> "IterateValues_Clone"]
  /\ UNCHANGED <<data, cell, mem, held, last, abs, plain>>

\* sm.RLock(): t gets in when no writer is in or past Lock.
RLock(t) ==
  /\ th[t].pc \in {"Count_RLock", "GetKey_RLock", "Exist_RLock", "IterateValues_RLock"}
  /\ rw.w = 0
  /\ rw' = [rw EXCEPT !.r = @ \cup {t}]
  /\ th' = [th EXCEPT ![t].pc = CASE @ = "Count_RLock" -> "Count_Read"
                                  [] @ = "GetKey_RLock" -> "GetKey_Clone"
                                  [] @ = "Exist_RLock" -> "Exist_Search"
                                  [] @ = "IterateValues_RLock" -> "IterateValues_Clone"]
  /\ UNCHANGED <<data, cell, mem, held, last, abs, plain>>

\* Mutant of CountRead: the read lock is not given back.
CountReadNoUnlock(t) ==
  /\ th[t].pc = "Count_Read"
  /\ Runs(St, [th EXCEPT ![t].acc = @ + cell[th[t].p].len, ![t].p = Nil,
                         ![t].pc = "Count_Range"])
  /\ UNCHANGED <<rw, abs>>

\* Count: count += int64(len(*slice)), and the deferred sm.RUnlock().
CountRead(t) ==
  /\ th[t].pc = "Count_Read"
  /\ Runs(St, [th EXCEPT ![t].acc = @ + cell[th[t].p].len, ![t].p = Nil,
                         ![t].pc = "Count_Range"])
  /\ rw' = [rw EXCEPT !.r = @ \ {t}]
  /\ UNCHANGED abs

\* GetKey, Exist: slice_, ok := sm.data.Load(key), before any lock; the call
\* returns nil or false when !ok.  The result of Exist is in ok; for GetKey ok
\* is false when the result is nil, and else the elements read through the
\* result are in got.
ReadLoad(t) ==
  /\ th[t].pc \in {"GetKey_Load", "Exist_Load"}
  /\ LET p == Load(data, th[t].key)
     IN Runs(St, [th EXCEPT ![t].p = p,
                            ![t].ok = FALSE,
                            ![t].pc = IF p = Nil THEN "done"
                                      ELSE IF th[t].op = "GetKey" THEN "GetKey_RLock"
                                      ELSE "Exist_RLock"])
  /\ UNCHANGED <<rw, abs>>

\* GetKey: cpy := slices.Clone(*slice); return &cpy, and the deferred
\* sm.RUnlock().  The caller reads the clone.
GetKeyClone(t) ==
  /\ th[t].pc = "GetKey_Clone"
  /\ LET cpy == Clone(mem, cell[th[t].p])
     IN Runs(St, [th EXCEPT ![t].ok = TRUE, ![t].got = Elems(cpy.mem, cpy.hdr),
                            ![t].p = Nil, ![t].pc = "done"])
  /\ rw' = [rw EXCEPT !.r = @ \ {t}]
  /\ UNCHANGED abs

\* Exist: the tests and the binary search on *slice, and the deferred
\* sm.RUnlock().
ExistSearch(t) ==
  /\ th[t].pc = "Exist_Search"
  /\ Runs(St, [th EXCEPT ![t].ok = ExistLocked(St, th[t].val, th[t].p),
                         ![t].p = Nil, ![t].pc = "done"])
  /\ rw' = [rw EXCEPT !.r = @ \ {t}]
  /\ UNCHANGED abs

\* IterateValues: sm.data.Range goes to a key it has not been to and calls the
\* function with the slice the key has then (no call when the key is not
\* there); after the last key IterateValues returns.
IterateValuesRange(t) ==
  /\ th[t].pc = "IterateValues_Range"
  /\ \/ /\ th[t].todo = {}
        /\ Runs(St, [th EXCEPT ![t].pc = "done"])
     \/ \E k \in th[t].todo :
          Runs(St, [th EXCEPT ![t].todo = @ \ {k},
                              ![t].key = IF Load(data, k) = Nil THEN @ ELSE k,
                              ![t].p = Load(data, k),
                              ![t].pc = IF Load(data, k) = Nil
                                          THEN "IterateValues_Range"
                                          ELSE "IterateValues_RLock"])
  /\ UNCHANGED <<rw, abs>>

\* IterateValues: cpy := slices.Clone(*slice); sm.RUnlock().  The clone is the
\* thread's own: it is kept as its elements.
IterateValuesClone(t) ==
  /\ th[t].pc = "IterateValues_Clone"
  /\ LET cpy == Clone(mem, cell[th[t].p])
     IN Runs(St, [th EXCEPT ![t].arg = Elems(cpy.mem, cpy.hdr), ![t].p = Nil,
                            ![t].snaps = {}, ![t].pc = "IterateValues_Visit"])
  /\ rw' = [rw EXCEPT !.r = @ \ {t}]
  /\ UNCHANGED abs

\* IterateValues: for _, v := range cpy { if !f(k, v) { return false } }, with
\* a visitor that returns false at its stop-th call for this key (never, when
\* stop is 0).  The values f was called with for the key are kept in got.
IterateValuesVisit(t, stop) ==
  /\ th[t].pc = "IterateValues_Visit"
  /\ stop <= Len(th[t].arg)
  /\ LET r == VisitValues(th[t].key, th[t].arg, 1, <<>>, stop)
     IN Runs(St, [th EXCEPT ![t].got = [i \in DOMAIN r.calls |-> r.calls[i][2]],
                            ![t].arg = <<>>,
                            ![t].pc = IF r.go THEN "IterateValues_Range" ELSE "done"])
  /\ UNCHANGED <<rw, abs>>

\* IterateKeys: sm.data.Range goes to a key it has not been to and, when the
\* key is there, calls f, which returns `go`; no lock is taken.
IterateKeysRange(t, go) ==
  /\ th[t].pc = "IterateKeys_Range"
  /\ \/ /\ th[t].todo = {}
        /\ go
        /\ Runs(St, [th EXCEPT ![t].pc = "done"])
     \/ \E k \in th[t].todo :
          Runs(St, [th EXCEPT ![t].todo = @ \ {k},
                              ![t].pc = IF Load(data, k) # Nil /\ ~go
                                          THEN "done" ELSE "IterateKeys_Range"])
  /\ UNCHANGED <<rw, abs>>

\* The caller has the result and is ready for its next call.
Finish(t) ==
  /\ th[t].pc = "done"
  /\ Runs(St, [th EXCEPT ![t] = IdleThread(th[t].left)])
  /\ UNCHANGED <<rw, abs>>

\* The calls of the concurrent specifications.
ThreadCall(op, key, val, arg) == [op |-> op, key |-> key, val |-> val, arg |-> arg]

ConcBatches == UNION {[1..n -> ConcValues] : n \in 0..MaxConcVal}

AddDeleteCalls(ks) ==
  {ThreadCall(op, k, v, <<>>) : op \in {"Add", "Delete"}, k \in ks, v \in ConcValues}

MutatorCalls ==
  AddDeleteCalls(Keys)
    \cup {ThreadCall("DeleteKey", k, 0, <<>>) : k \in Keys}
    \cup {ThreadCall("AddSlice", k, 0, b) : k \in Keys, b \in ConcBatches}

\* The steps of a thread in Add or Delete.
AddDeleteStep(t) ==
  \/ WLock(t)
  \/ AddLoad(t)
  \/ AddBody(t)
  \/ DeleteLoad(t)
  \/ DeleteBody(t)
  \/ DeleteDrop(t)
  \/ Unlock(t)

\* Threads that call Add and Delete on key 1, any number of times each, as
\* the goroutines of TestConcurrency do.
NextAddDelete ==
  \E t \in Threads :
    \/ \E c \in AddDeleteCalls({1}) : Begin(t, c, 0)
    \/ AddDeleteStep(t)

SpecAddDelete == Init /\ [][NextAddDelete]_vars

\* The maps the counted specifications start from: every key is not there or
\* holds what one AddSlice of a batch that is not empty has stored.
RECURSIVE Filled(_, _, _)
Filled(S, ks, f) ==
  IF ks = {} THEN S
  ELSE LET k == CHOOSE x \in ks : TRUE
           a == NewArray(S.mem, f[k])
       IN Filled(IF f[k] = <<>> THEN S
                 ELSE AddSliceOp([S EXCEPT !.mem = a.mem], k, a.hdr),
                 ks \ {k}, f)

\* The state after the AddSlice calls f, with the threads ready to make the
\* numbers of calls n.
InitFilled(f, n) ==
  LET G == Collect(Filled([data |-> EmptyFn, cell |-> EmptyFn, mem |-> EmptyFn],
                          Keys, f), <<>>, <<>>)
  IN /\ data = G.data
     /\ cell = G.cell
     /\ mem = G.mem
     /\ held = Nil
     /\ last = Idle
     /\ th = [t \in Threads |-> IdleThread(n[t])]
     /\ rw = [w |-> 0, r |-> {}]
     /\ abs = [k \in Keys |-> ToSet(f[k])]
     /\ plain = NewPlain

\* Thread 1 calls Count once while the other threads make MaxCalls mutating
\* calls each.
InitCount ==
  \E f \in [Keys -> ConcBatches] :
    InitFilled(f, [t \in Threads |-> IF t = 1 THEN 1 ELSE MaxCalls])

NextCount ==
  \E t \in Threads :
    \/ /\ th[t].left > 0
       /\ \E c \in IF t = 1 THEN {ThreadCall("Count", 0, 0, <<>>)} ELSE MutatorCalls :
            Begin(t, c, th[t].left - 1)
    \/ AddDeleteStep(t)
    \/ DeleteKeyStep(t)
    \/ AddSliceLoad(t)
    \/ AddSliceStore(t)
    \/ CountRange(t)
    \/ RLock(t)
    \/ CountRead(t)
    \/ Finish(t)

SpecCount == InitCount /\ [][NextCount]_vars

\* Every thread makes one mutating call.
InitMutators ==
  \E f \in [Keys -> ConcBatches] : InitFilled(f, [t \in Threads |-> 1])

NextMutators ==
  \E t \in Threads :
    \/ /\ th[t].left > 0
       /\ \E c \in MutatorCalls : Begin(t, c, th[t].left - 1)
    \/ AddDeleteStep(t)
    \/ DeleteKeyStep(t)
    \/ AddSliceLoad(t)
    \/ AddSliceStore(t)

SpecMutators == InitMutators /\ [][NextMutators]_vars

\* The steps of a thread inside a call, whatever the call.
ThreadStep(t) ==
  \/ AddDeleteStep(t)
  \/ DeleteKeyStep(t)
  \/ AddSliceLoad(t)
  \/ AddSliceStore(t)
  \/ CountRange(t)
  \/ RLock(t)
  \/ CountRead(t)
  \/ ReadLoad(t)
  \/ GetKeyClone(t)
  \/ ExistSearch(t)
  \/ IterateValuesRange(t)
  \/ IterateValuesClone(t)
  \/ \E stop \in 0..1 : IterateValuesVisit(t, stop)
  \/ \E go \in BOOLEAN : IterateKeysRange(t, go)
  \/ Finish(t)

\* One call of each of the nine operations.
LiveCalls ==
  {ThreadCall("Add", 1, 2, <<>>), ThreadCall("Delete", 1, 1, <<>>),
   ThreadCall("DeleteKey", 1, 0, <<>>), ThreadCall("AddSlice", 1, 0, <<2, 1>>),
   ThreadCall("Exist", 1, 1, <<>>), ThreadCall("GetKey", 1, 0, <<>>),
   ThreadCall("Count", 0, 0, <<>>), ThreadCall("IterateValues", 0, 0, <<>>),
   ThreadCall("IterateKeys", 0, 0, <<>>)}

\* Every thread makes one call, any of the nine, with a visitor that returns
\* and does not call the map.  The keys are not there or hold one
\* value.
InitLive ==
  \E f \in [Keys -> {<<>>, <<1>>}] : InitFilled(f, [t \in Threads |-> 1])

NextLive ==
  \E t \in Threads :
    \/ /\ th[t].left > 0
       /\ \E c \in LiveCalls : Begin(t, c, th[t].left - 1)
    \/ ThreadStep(t)

\* Where the threads are: every step of a thread inside a call changes it.
places == <<rw, [t \in Threads |-> <<th[t].pc, th[t].todo>>]>>

\* The scheduler lets every thread that can take a step take one.  A thread
\* that waits for the lock gets it once it is free for good: the other threads
\* make finitely many calls.
SpecLive ==
  InitLive /\ [][NextLive]_vars /\ \A t \in Threads : WF_places(ThreadStep(t))

\* Thread 1 calls AddSlice(1, B) once and thread 2 DeleteKey(1) once, on a
\* map in which key 1 is not there or holds a sequence A.
InitRace ==
  \E f \in [Keys -> ConcBatches] : InitFilled(f, [t \in Threads |-> 1])

NextRace ==
  \E t \in Threads :
    \/ /\ th[t].left > 0
       /\ \E c \in IF t = 1 THEN {ThreadCall("AddSlice", 1, 0, b) : b \in ConcBatches}
                            ELSE {ThreadCall("DeleteKey", 1, 0, <<>>)} :
            Begin(t, c, th[t].left - 1)
    \/ WLock(t)
    \/ AddSliceLoad(t)
    \/ AddSliceStore(t)
    \/ Unlock(t)
    \/ DeleteKeyStep(t)

SpecRace == InitRace /\ [][NextRace]_vars

\* The calls that run beside a traversal.
IterCalls ==
  {ThreadCall(op, k, v, <<>>) : op \in {"Add", "Delete"}, k \in Keys, v \in Values}
    \cup {ThreadCall("AddSlice", k, 0, b) : k \in Keys, b \in ConcBatches}

\* Thread 1 calls IterateValues once while the other threads make MaxCalls
\* calls of Add, Delete and AddSlice each; every key is not there or holds
\* <<1, MaxVal>>.
InitIter ==
  \E f \in [Keys -> {<<>>, <<1, MaxVal>>}] :
    InitFilled(f, [t \in Threads |-> IF t = 1 THEN 1 ELSE MaxCalls])

NextIter ==
  \E t \in Threads :
    \/ /\ th[t].left > 0
       /\ \E c \in IF t = 1 THEN {ThreadCall("IterateValues", 0, 0, <<>>)}
                            ELSE IterCalls :
            Begin(t, c, th[t].left - 1)
    \/ WLock(t)
    \/ AddLoad(t)
    \/ AddBodyInSteps(t)
    \/ AddCopy(t)
    \/ AddSet(t)
    \/ DeleteLoad(t)
    \/ DeleteBody(t)
    \/ DeleteDrop(t)
    \/ AddSliceLoad(t)
    \/ AddSliceStore(t)
    \/ Unlock(t)
    \/ IterateValuesRange(t)
    \/ RLock(t)
    \/ IterateValuesClone(t)
    \/ \E stop \in 0..1 : IterateValuesVisit(t, stop)
    \/ Finish(t)

SpecIter == InitIter /\ [][NextIter]_vars

\* ------------------------------- callers of the plain-map variant

\* what a call on the plain-map variant leaves alone
sync == <<data, cell, mem, held, th, rw, abs>>

\* The plain-map variant's state becomes S, its caller keeps pointer r.
PlainBecomes(S, r) ==
  \E G \in {Collect(S, <<r>>, <<>>)} :
    plain' = [data |-> G.data, cell |-> G.cell, mem |-> G.mem, held |-> G.ptrs[1],
              rw |-> plain.rw]

PlainAdd(key, value) ==
  /\ last.op = "idle"
  /\ PlainBecomes(PlainAddOp(PSt, key, value), plain.held)
  /\ last' = Call("Add", key, value, <<>>, 0)
  /\ UNCHANGED sync

PlainDelete(key, value) ==
  /\ last.op = "idle"
  /\ PlainBecomes(PlainDeleteOp(PSt, key, value), plain.held)
  /\ last' = Call("Delete", key, value, <<>>, 0)
  /\ UNCHANGED sync

PlainDeleteKey(key) ==
  /\ last.op = "idle"
  /\ PlainBecomes(PlainDeleteKeyOp(PSt, key), plain.held)
  /\ last' = Call("DeleteKey", key, 0, <<>>, 0)
  /\ UNCHANGED sync

\* The caller's batch is a slice of its own; it drops it after the call.
PlainAddSlice(key, batch) ==
  /\ last.op = "idle"
  /\ LET arg == NewArray(plain.mem, batch)
     IN PlainBecomes(PlainAddSliceOp([PSt EXCEPT !.mem = arg.mem], key, arg.hdr),
                     plain.held)
  /\ last' = Call("AddSlice", key, 0, batch, 0)
  /\ UNCHANGED sync

\* GetKey(key) of the plain-map variant, and the caller keeps the pointer it
\* got (it lets go of the one it had).
PlainGetKeyHold(key) ==
  /\ last.op = "idle"
  /\ LET r == PlainGetKeyOp(PSt, key)
     IN /\ PlainBecomes(r.st, r.ret)
        /\ last' = Call("GetKey", key, 0, <<>>, Returned(r.st, r.ret))
  /\ UNCHANGED sync

\* The caller writes v at index i of the slice it got from GetKey.
PlainCallerWrite(i, v) ==
  /\ last.op = "idle"
  /\ plain.held # Nil
  /\ i < plain.cell[plain.held].len
  /\ PlainBecomes(CallerStore(PSt, plain.held, i, v), plain.held)
  /\ last' = Call("CallerWrite", 0, v, <<>>, i)
  /\ UNCHANGED sync

\* No sequence of the plain-map variant is longer than a strictly increasing
\* one can be.  The caller's writes can undo the order, and an Add to an
\* unordered sequence can lengthen it without end: the caller stops adding
\* beyond this length.
PlainShort ==
  \A k \in DOMAIN plain.data : plain.cell[plain.data[k]].len <= MaxVal

\* A caller of the plain-map variant that keeps what GetKey(1) returned, writes
\* to it and goes on calling the mutators of key 1 (Add and AddSlice while
\* PlainShort).
NextPlainAlias ==
  \/ \E v \in ConcValues : PlainShort /\ PlainAdd(1, v)
  \/ \E v \in ConcValues : PlainDelete(1, v)
  \/ PlainDeleteKey(1)
  \/ \E b \in ConcBatches : PlainShort /\ PlainAddSlice(1, b)
  \/ PlainGetKeyHold(1)
  \/ \E i \in 0..(MaxConcVal - 1), v \in ConcValues : PlainCallerWrite(i, v)
  \/ Resume

SpecPlainAlias == Init /\ [][NextPlainAlias]_vars

\* --------------------------------------- one caller, the two variants
\* A sequential caller makes every call on a sync.Map SliceMap and on a
\* plain-map SliceMap, and keeps what the last GetKey returned from each.

\* What GetKey returned, as the caller reads it: whether it is nil, and the
\* elements.
Got(S, p) == [nil |-> p = Nil, elems |-> IF p = Nil THEN <<>> ELSE Elems(S.mem, S.cell[p])]

BothAdd(key, value) ==
  /\ last.op = "idle"
  /\ Becomes(AddOp(St, key, value), held)
  /\ PlainBecomes(PlainAddOp(PSt, key, value), plain.held)
  /\ last' = Call("Add", key, value, <<>>, <<0, 0>>)
  /\ UNCHANGED <<th, rw, abs>>

BothDelete(key, value) ==
  /\ last.op = "idle"
  /\ Becomes(DeleteOp(St, key, value), held)
  /\ PlainBecomes(PlainDeleteOp(PSt, key, value), plain.held)
  /\ last' = Call("Delete", key, value, <<>>, <<0, 0>>)
  /\ UNCHANGED <<th, rw, abs>>

BothDeleteKey(key) ==
  /\ last.op = "idle"
  /\ Becomes(DeleteKeyOp(St, key), held)
  /\ PlainBecomes(PlainDeleteKeyOp(PSt, key), plain.held)
  /\ last' = Call("DeleteKey", key, 0, <<>>, <<0, 0>>)
  /\ UNCHANGED <<th, rw, abs>>

\* The caller passes each variant a slice of its own holding the batch.
BothAddSlice(key, batch) ==
  /\ last.op = "idle"
  /\ LET arg == NewArray(mem, batch)
     IN Becomes(AddSliceOp([St EXCEPT !.mem = arg.mem], key, arg.hdr), held)
  /\ LET arg == NewArray(plain.mem, batch)
     IN PlainBecomes(PlainAddSliceOp([PSt EXCEPT !.mem = arg.mem], key, arg.hdr),
                     plain.held)
  /\ last' = Call("AddSlice", key, 0, batch, <<0, 0>>)
  /\ UNCHANGED <<th, rw, abs>>

BothExist(key, value) ==
  /\ last.op = "idle"
  /\ last' = Call("Exist", key, value, <<>>,
                  <<ExistOp(St, key, value), PlainExistOp(PSt, key, value)>>)
  /\ UNCHANGED <<data, cell, mem, held, plain, th, rw, abs>>

BothCount ==
  /\ last.op = "idle"
  /\ last' = Call("Count", 0, 0, <<>>, <<CountOp(St), PlainCountOp(PSt)>>)
  /\ UNCHANGED <<data, cell, mem, held, plain, th, rw, abs>>

\* GetKey(key) on both, and the caller keeps the two pointers it got (it lets
\* go of the ones it had).
BothGetKey(key) ==
  /\ last.op = "idle"
  /\ LET r == GetKeyOp(St, key)
         q == PlainGetKeyOp(PSt, key)
     IN /\ Becomes(r.st, r.ret)
        /\ PlainBecomes(q.st, q.ret)
        /\ last' = Call("GetKey", key, 0, <<>>, <<Got(r.st, r.ret), Got(q.st, q.ret)>>)
  /\ UNCHANGED <<th, rw, abs>>

\* The calls of the caller; its AddSlice calls are on key 1.
NextBoth ==
  \/ \E k \in Keys, v \in ConcValues : BothAdd(k, v)
  \/ \E k \in Keys, v \in ConcValues : BothDelete(k, v)
  \/ \E k \in Keys : BothDeleteKey(k)
  \/ \E b \in ConcBatches : BothAddSlice(1, b)
  \/ \E k \in Keys, v \in ConcValues : BothExist(k, v)
  \/ BothCount
  \/ \E k \in Keys : BothGetKey(k)
  \/ Resume

SpecBoth == Init /\ [][NextBoth]_vars

\* ------------------------------------------ visitors that call the map
\* A traversal whose visitor f calls the SliceMap it is visiting: Add(k, v)
\* with k the key f was called for, or DeleteKey(k) (kept as v = 0).

IsPlain(op) == op \in {"PlainIterateValues", "PlainIterateKeys"}

\* Where the visitor's call starts: every mutator begins with Lock(), but the
\* sync.Map variant's DeleteKey, which takes no lock.
VisitorFirstPc(op, v) == IF v = 0 /\ ~IsPlain(op) THEN "Visitor_Body" ELSE "Visitor_Lock"

\* Where the traversal goes on when the visitor has returned true.
VisitorBack(op) ==
  CASE op = "IterateValues" -> "IterateValues_Visit"
    [] op = "IterateKeys" -> "IterateKeys_Range"
    [] IsPlain(op) -> "PlainIterate_Visit"

\* sync.Map variant, IterateValues: f is called with the next value of the
\* clone, and calls the map.
IterateValuesVisitorCalls(t, v) ==
  /\ th[t].pc = "IterateValues_Visit"
  /\ th[t].arg # <<>>
  /\ Runs(St, [th EXCEPT ![t].arg = Tail(@), ![t].val = v,
                         ![t].pc = VisitorFirstPc(th[t].op, v)])
  /\ UNCHANGED <<rw, abs>>

\* sync.Map variant, IterateKeys: Range goes to a key that is there and calls
\* f, which calls the map.
IterateKeysVisitorCalls(t, v) ==
  /\ th[t].pc = "IterateKeys_Range"
  /\ \E k \in th[t].todo :
       /\ Load(data, k) # Nil
       /\ Runs(St, [th EXCEPT ![t].todo = @ \ {k}, ![t].key = k, ![t].val = v,
                              ![t].pc = VisitorFirstPc(th[t].op, v)])
  /\ UNCHANGED <<rw, abs>>

\* what a step on the plain-map variant's mutex or map leaves alone
syncmap == <<data, cell, mem, held, last, rw, abs>>

\* plain-map variant, IterateValues and IterateKeys: sm.RLock()
PlainIterateRLock(t) ==
  /\ th[t].pc = "PlainIterate_RLock"
  /\ plain.rw.w = 0
  /\ plain' = [plain EXCEPT !.rw.r = @ \cup {t}]
  /\ th' = [th EXCEPT ![t].pc = "PlainIterate_Range"]
  /\ UNCHANGED syncmap

\* plain-map variant: `for k, slice := range sm.data` goes to a key of the map
\* it has not been to, with the calls of f to make there (one for each value
\* of *slice in IterateValues, one in IterateKeys); after the last key the
\* method returns and the deferred sm.RUnlock() runs.
PlainIterateRange(t) ==
  /\ th[t].pc = "PlainIterate_Range"
  /\ \E ks \in {th[t].todo \cap DOMAIN plain.data} :
       IF ks = {}
         THEN /\ plain' = [plain EXCEPT !.rw.r = @ \ {t}]
              /\ th' = [th EXCEPT ![t].pc = "done", ![t].todo = {}]
         ELSE /\ \E k \in ks :
                   th' = [th EXCEPT ![t].todo = @ \ {k}, ![t].key = k,
                                    ![t].arg = IF th[t].op = "PlainIterateValues"
                                                 THEN SeqOf(PSt, k) ELSE <<k>>,
                                    ![t].pc = "PlainIterate_Visit"]
              /\ UNCHANGED plain
  /\ UNCHANGED syncmap

\* plain-map variant: f is called for the next value (the key), calls nothing
\* and returns `go`; on false the method returns and the deferred
\* sm.RUnlock() runs.
PlainIterateVisit(t, go) ==
  /\ th[t].pc = "PlainIterate_Visit"
  /\ IF th[t].arg = <<>>
       THEN /\ go
            /\ th' = [th EXCEPT ![t].pc = "PlainIterate_Range"]
            /\ UNCHANGED plain
       ELSE /\ th' = [th EXCEPT ![t].arg = Tail(@),
                                ![t].pc = IF go THEN @ ELSE "done"]
            /\ plain' = IF go THEN plain ELSE [plain EXCEPT !.rw.r = @ \ {t}]
  /\ UNCHANGED syncmap

\* plain-map variant: f is called for the next value (the key), and calls the
\* map.
PlainIterateVisitorCalls(t, v) ==
  /\ th[t].pc = "PlainIterate_Visit"
  /\ th[t].arg # <<>>
  /\ th' = [th EXCEPT ![t].arg = Tail(@), ![t].val = v,
                      ![t].pc = VisitorFirstPc(th[t].op, v)]
  /\ UNCHANGED <<plain, syncmap>>

\* The visitor's call: sm.Lock().  t becomes the writer when there is none.
VisitorLock(t) ==
  /\ th[t].pc = "Visitor_Lock"
  /\ IF IsPlain(th[t].op)
       THEN /\ plain.rw.w = 0
            /\ plain' = [plain EXCEPT !.rw.w = t]
            /\ UNCHANGED rw
       ELSE /\ rw.w = 0
            /\ rw' = [rw EXCEPT !.w = t]
            /\ UNCHANGED plain
  /\ th' = [th EXCEPT ![t].pc = "Visitor_Body"]
  /\ UNCHANGED <<data, cell, mem, held, last, abs>>

\* The visitor's call: Lock() has returned (the readers are out) and the body
\* of Add(key, val), or of DeleteKey(key) when val is 0, runs.
VisitorBody(t) ==
  /\ th[t].pc = "Visitor_Body"
  /\ IF IsPlain(th[t].op)
       THEN /\ plain.rw.w = t /\ plain.rw.r = {}
            /\ PlainBecomes(IF th[t].val = 0
                              THEN PlainDeleteKeyOp(PSt, th[t].key)
                              ELSE PlainAddOp(PSt, th[t].key, th[t].val),
                            plain.held)
            /\ th' = [th EXCEPT ![t].pc = "Visitor_Unlock"]
            /\ UNCHANGED syncmap
       ELSE /\ th[t].val # 0 => Holding(t)
            /\ Runs(IF th[t].val = 0 THEN DeleteKeyOp(St, th[t].key)
                                     ELSE AddOp(St, th[t].key, th[t].val),
                    [th EXCEPT ![t].pc = IF th[t].val = 0 THEN VisitorBack(th[t].op)
                                                          ELSE "Visitor_Unlock"])
            /\ abs' = [abs EXCEPT ![th[t].key] = IF th[t].val = 0 THEN {}
                                                  ELSE @ \cup {th[t].val}]
            /\ UNCHANGED rw

\* The visitor's call: the deferred sm.Unlock(); the call returns, f returns
\* true and the traversal goes on.
VisitorUnlock(t) ==
  /\ th[t].pc = "Visitor_Unlock"
  /\ IF IsPlain(th[t].op)
       THEN plain' = [plain EXCEPT !.rw.w = 0] /\ UNCHANGED rw
       ELSE rw' = [rw EXCEPT !.w = 0] /\ UNCHANGED plain
  /\ th' = [th EXCEPT ![t].pc = VisitorBack(th[t].op)]
  /\ UNCHANGED <<data, cell, mem, held, last, abs>>

\* The traversals.
VisitCalls ==
  {ThreadCall(op, 0, 0, <<>>) :
     op \in {"IterateValues", "IterateKeys", "PlainIterateValues", "PlainIterateKeys"}}

\* Both variants hold the same map, in which every key is not there or holds
\* one value; thread 1 makes one traversal.
InitVisit ==
  \E f \in [Keys -> {<<>>, <<1>>}] :
    \E G \in {Collect(Filled([data |-> EmptyFn, cell |-> EmptyFn, mem |-> EmptyFn],
                             Keys, f), <<>>, <<>>)} :
      /\ data = G.data
      /\ cell = G.cell
      /\ mem = G.mem
      /\ held = Nil
      /\ last = Idle
      /\ th = [t \in Threads |-> IdleThread(IF t = 1 THEN 1 ELSE 0)]
      /\ rw = [w |-> 0, r |-> {}]
      /\ abs = [k \in Keys |-> ToSet(f[k])]
      /\ plain = [NewPlain EXCEPT !.data = G.data, !.cell = G.cell, !.mem = G.mem]

\* The steps of a thread in a traversal.
VisitStep(t) ==
  \/ IterateValuesRange(t)
  \/ RLock(t)
  \/ IterateValuesClone(t)
  \/ IterateValuesVisit(t, 0)
  \/ \E go \in BOOLEAN : IterateKeysRange(t, go)
  \/ \E v \in 0..MaxConcVal : IterateValuesVisitorCalls(t, v)
  \/ \E v \in 0..MaxConcVal : IterateKeysVisitorCalls(t, v)
  \/ PlainIterateRLock(t)
  \/ PlainIterateRange(t)
  \/ \E go \in BOOLEAN : PlainIterateVisit(t, go)
  \/ \E v \in 0..MaxConcVal : PlainIterateVisitorCalls(t, v)
  \/ VisitorLock(t)
  \/ VisitorBody(t)
  \/ VisitorUnlock(t)
  \/ Finish(t)

NextVisit ==
  \E t \in Threads :
    \/ /\ th[t].left > 0
       /\ \E c \in VisitCalls : Begin(t, c, th[t].left - 1)
    \/ VisitStep(t)

\* The scheduler lets every thread that can take a step take one.
SpecVisit ==
  InitVisit /\ [][NextVisit]_vars /\ \A t \in Threads : WF_vars(VisitStep(t))

\* ------------------------------------------------------------- properties

StrictlyIncreasing(s) == \A i \in 1..(Len(s) - 1) : s[i] < s[i + 1]

\* The values key k holds in state S (none when the key is not there).
ValuesOf(S, k) ==
  IF k \in DOMAIN S.data THEN ToSet(Elems(S.mem, S.cell[S.data[k]])) ELSE {}

RECURSIVE SumLen(_, _)
SumLen(S, ks) ==
  IF ks = {} THEN 0
  ELSE LET k == CHOOSE x \in ks : TRUE
       IN Len(SeqOf(S, k)) + SumLen(S, ks \ {k})

\* C1: after any sequence of Add, Delete, DeleteKey and AddSlice calls, the
\* sequence of every key present is strictly increasing.
C1_StrictlyIncreasing == \A k \in DOMAIN data : StrictlyIncreasing(Seqs[k])

\* An AddSlice with an unsorted batch has merged into a key that held another
\* value: the key now holds three values.
C1_Witness ==
  /\ last.op = "AddSlice"
  /\ last.arg = <<MaxVal, 1>>
  /\ last.key \in DOMAIN data
  /\ Len(Seqs[last.key]) = 3

\* C2: what GetKey returned shares no storage with the map.  A write of the
\* caller to it changes no result of GetKey, Exist or Count, and an Add,
\* Delete, DeleteKey or AddSlice changes nothing in it.
C2_NoAlias ==
  [][/\ last'.op = "CallerWrite" =>
          /\ \A k \in Keys :
               Returned(GetKeyOp(St', k).st, GetKeyOp(St', k).ret)
                 = Returned(GetKeyOp(St, k).st, GetKeyOp(St, k).ret)
          /\ \A k \in Keys, v \in Values : ExistOp(St', k, v) = ExistOp(St, k, v)
          /\ CountOp(St') = CountOp(St)
     /\ (last'.op \in {"Add", "Delete", "DeleteKey", "AddSlice"} /\ held # Nil) =>
          /\ held' # Nil
          /\ Returned(St', held') = Returned(St, held)
     /\ held' # Nil =>
          \A k \in DOMAIN data' :
            cell'[held'].arr = Nil \/ cell'[held'].arr # cell'[data'[k]].arr]_vars

\* The caller has written to the first element of a returned sequence that
\* the map has since grown away from.
C2_Witness ==
  /\ last.op = "CallerWrite"
  /\ held # Nil
  /\ 1 \in DOMAIN data
  /\ Len(Seqs[1]) > Len(Returned(St, held))
  /\ Returned(St, held)[1] # Seqs[1][1]

\* C3: with threads in Add and Delete on key 1, the key holds at every step
\* the values that the calls, made one after the other in the order in which
\* they changed the slice, leave (abs), in strictly increasing order; the key
\* is there when values are, and gone when the thread that removed the last
\* value has dropped it.
C3_AddDeleteSerial ==
  /\ \A k \in DOMAIN data : StrictlyIncreasing(Seqs[k])
  /\ ValuesOf(St, 1) = abs[1]
  /\ abs[1] # {} => Seqs[1] = Ascending(abs[1])
  /\ (\A t \in Threads : th[t].pc # "Delete_Drop") => (1 \in DOMAIN data <=> abs[1] # {})

\* A thread has added the second value and holds the lock that a thread in
\* Delete waits for.
C3_Witness ==
  \E t, u \in Threads :
    /\ th[t].op = "Add" /\ th[t].pc = "Unlock"
    /\ th[u].op = "Delete" /\ th[u].pc = "Delete_Lock"
    /\ 1 \in DOMAIN data
    /\ Seqs[1] = <<1, 2>>

\* C4: AddSlice(key, values) leaves key holding the strictly increasing
\* enumeration of (what key held before) union (the elements of values), for
\* every batch, sorted or not, with duplicates or not, empty or not.
C4_AddSliceUnion ==
  [][last'.op = "AddSlice" =>
       /\ last'.key \in DOMAIN data'
       /\ Seqs'[last'.key]
            = Ascending(ValuesOf(St, last'.key) \cup ToSet(last'.arg))]_vars

\* An AddSlice of a batch with a duplicate into a key that held other values.
C4_Witness ==
  /\ last.op = "AddSlice"
  /\ last.arg = <<2, 2>>
  /\ last.key \in DOMAIN data
  /\ Seqs[last.key] = <<1, 2, 3>>

\* C5: no key present in the container maps to an empty sequence.
C5_NoEmptySequence == \A k \in DOMAIN data : Len(Seqs[k]) > 0

\* C6: Add(k, v) leaves k holding the sorted enumeration of old \cup {v},
\* Delete(k, v) the sorted enumeration of old \ {v} (no key when nothing is
\* left of a sequence a value was removed from).
C6_AddDeleteReference ==
  [][/\ last'.op = "Add" =>
          /\ last'.key \in DOMAIN data'
          /\ Seqs'[last'.key] = Ascending(ValuesOf(St, last'.key) \cup {last'.val})
     /\ last'.op = "Delete" =>
          SeqOf(St', last'.key) = Ascending(ValuesOf(St, last'.key) \ {last'.val})]_vars

\* An Add of the value in the middle of a sequence of three.
C6_Witness ==
  /\ last.op = "Add"
  /\ last.val = 2
  /\ last.key \in DOMAIN data
  /\ Seqs[last.key] = <<1, 2, 3>>

\* C7: Exist(k, v) returns true exactly when v is an element of the sequence
\* stored under k (false when k is not there, false outside [first, last]).
C7_ExistIffElement ==
  last.op = "Exist" => (last.ret <=> last.val \in ValuesOf(St, last.key))

\* Exist has found the value in the middle of a sequence of three.
C7_Witness ==
  /\ last.op = "Exist"
  /\ last.val = 2
  /\ last.ret = TRUE
  /\ Seqs[last.key] = <<1, 2, 3>>

\* C8: the number Count returns is a total that the map had at an instant
\* between the call and the return.
C8_CountSnapshot ==
  \A t \in Threads :
    (th[t].op = "Count" /\ th[t].pc = "done") => th[t].ret \in th[t].seen

\* C9: a step of a mutating call that reads or writes the mapping is not
\* taken while another mutating call is between its first and its last such
\* step.
C9_MutatorsExclusive ==
  [][\A t \in Threads :
       (/\ th[t].pc \in {"Add_Load", "Add_Body", "Delete_Load", "Delete_Body",
                         "Delete_Drop", "DeleteKey_Delete", "AddSlice_Load",
                         "AddSlice_Store"}
        /\ th'[t].pc # th[t].pc)
       => \A u \in Threads \ {t} :
            th[u].pc \notin {"Add_Body", "Delete_Body", "Delete_Drop", "AddSlice_Store"}]_vars

\* C10: after Delete removes the last value under a key, and after
\* DeleteKey, GetKey(key) returns nil, IterateKeys does not visit the key and
\* Count() is the total of the other keys.
C10_EmptiedKeyIsGone ==
  [][\A k \in Keys :
       (\/ /\ last'.op = "Delete" /\ last'.key = k
           /\ SeqOf(St, k) = <<last'.val>>
        \/ /\ last'.op = "DeleteKey" /\ last'.key = k)
       => /\ GetKeyOp(St', k).ret = Nil
          /\ \A o \in Orders(DOMAIN data'), n \in 0..NumKeys :
               k \notin ToSet(IterateKeysOp(o, n))
          /\ CountOp(St') = SumLen(St, DOMAIN data \ {k})]_vars

\* Delete has removed the last value of a key while another key holds two.
C10_Witness ==
  /\ last.op = "Delete"
  /\ last.key \notin DOMAIN data
  /\ \E k \in DOMAIN data : Len(Seqs[k]) = 2

\* The key -> sequence mapping that state S holds.
SeqsOf(S) == [k \in DOMAIN S.data |-> Elems(S.mem, S.cell[S.data[k]])]

\* C11: from every state, Add(k, v) made twice leaves the mapping that Add(k, v)
\* made once leaves, and so for Delete(k, v).
C11_Idempotent ==
  \A k \in Keys, v \in Values :
    /\ SeqsOf(AddOp(AddOp(St, k, v), k, v)) = SeqsOf(AddOp(St, k, v))
    /\ SeqsOf(DeleteOp(DeleteOp(St, k, v), k, v)) = SeqsOf(DeleteOp(St, k, v))

\* A Delete has taken the value in the middle of three, and an Add of it puts
\* it back there: the second Delete and the second Add meet what the first did.
C11_Witness ==
  /\ last.op = "Delete"
  /\ last.val = 2
  /\ last.key \in DOMAIN data
  /\ Seqs[last.key] = <<1, 3>>
  /\ SeqsOf(AddOp(St, last.key, 2))[last.key] = <<1, 2, 3>>

\* C12: in one IterateValues call the visitor gets no (key, value) pair twice,
\* gets only pairs that are stored, gets the values of one key in increasing
\* order, and is not called again once it has returned false; IterateKeys
\* does not call its visitor again once it has returned false either.
C12_IterationOrder ==
  /\ last.op = "IterateValues" =>
       /\ \A i, j \in DOMAIN last.ret :
            i < j => /\ last.ret[i] # last.ret[j]
                     /\ last.ret[i][1] = last.ret[j][1] => last.ret[i][2] < last.ret[j][2]
       /\ \A i \in DOMAIN last.ret : last.ret[i][2] \in ValuesOf(St, last.ret[i][1])
       /\ last.val > 0 => Len(last.ret) <= last.val
       /\ last.val = 0 => Len(last.ret) = SumLen(St, DOMAIN data)
  /\ last.op = "IterateKeys" =>
       /\ \A i, j \in DOMAIN last.ret : i < j => last.ret[i] # last.ret[j]
       /\ last.val > 0 => Len(last.ret) <= last.val

\* The visitor has returned false at its second call, in the middle of the
\* values of the second key that Range came to.
C12_Witness ==
  /\ last.op = "IterateValues"
  /\ last.val = 2
  /\ last.ret = << <<2, 1>>, <<1, 2>> >>
  /\ Seqs[1] = <<2, 3>>

\* C13: a Delete of a value the key does not hold (the key not there, or
\* there without the value) and a DeleteKey of a key that is not there leave
\* the mapping as it is; GetKey of a key that is not there returns nil and
\* Exist of it false.
C13_NoOpDeletes ==
  [][/\ (last'.op = "Delete" /\ last'.val \notin ValuesOf(St, last'.key)) =>
          Seqs' = Seqs
     /\ (last'.op = "DeleteKey" /\ last'.key \notin DOMAIN data) =>
          Seqs' = Seqs
     /\ (last'.op = "GetKey" /\ last'.key \notin DOMAIN data) =>
          /\ GetKeyOp(St, last'.key).ret = Nil
          /\ last'.ret = "nil"
     /\ (last'.op = "Exist" /\ last'.key \notin DOMAIN data) =>
          last'.ret = FALSE]_vars

\* Delete was called with a value between the two that the key holds; the
\* slice is as AddSlice made it, full and at the start of its array, so
\* nothing was taken from it.
C13_Witness ==
  /\ last.op = "Delete"
  /\ last.val = 2
  /\ last.key \in DOMAIN data
  /\ Seqs[last.key] = <<1, 3>>
  /\ cell[data[last.key]].off = 0
  /\ Cap(mem, cell[data[last.key]]) = 2

\* C14: every call that a thread is in returns.
C14_EveryCallReturns ==
  \A t \in Threads : (th[t].pc # "idle") ~> (th[t].pc = "idle")

\* A thread in IterateValues, between two keys, waits for the read lock while
\* a thread in AddSlice has the write lock.
C14_Witness ==
  \E t, u \in Threads :
    /\ th[t].pc = "IterateValues_RLock"
    /\ th[u].pc = "AddSlice_Load"
    /\ rw.w = u

\* C15: when the AddSlice(1, B) of a thread has stored and the DeleteKey(1) of
\* the other threads has returned, key 1 is not there or holds the sorted
\* values of B, as after one of the two serial orders.
C15_RaceSerial ==
  \A t \in Threads :
    (/\ th[t].op = "AddSlice" /\ th[t].pc = "Unlock"
     /\ \A u \in Threads \ {t} : th[u].pc = "idle" /\ th[u].left = 0)
    => \/ 1 \notin DOMAIN data
       \/ Seqs[1] = Ascending(ToSet(th[t].arg))

\* C16: what the plain-map variant's GetKey returned is the caller's own.  A
\* write of the caller to it changes no sequence of the container, and an Add,
\* Delete or AddSlice changes nothing in what the caller received.
C16_PlainNoAlias ==
  [][/\ last'.op = "CallerWrite" => SeqsOf(PSt') = SeqsOf(PSt)
     /\ (last'.op \in {"Add", "Delete", "AddSlice"} /\ plain.held # Nil) =>
          /\ plain'.held # Nil
          /\ Returned(PSt', plain'.held) = Returned(PSt, plain.held)]_vars

\* C17: beside Add, Delete and AddSlice, the clone IterateValues takes of a
\* key's slice is a sequence the key held at an instant between Range's call
\* with the key and the clone, no Add being in its shift at that instant; the
\* visitor gets the elements of the clone in order, all of them when it never
\* returns false, and the first ones up to the call where it does.
C17_IterationSnapshot ==
  [][\A t \in Threads :
       /\ (th[t].pc = "IterateValues_Clone" /\ th'[t].pc = "IterateValues_Visit")
            => th'[t].arg \in th[t].snaps
       /\ (th[t].pc = "IterateValues_Visit" /\ th'[t].pc = "IterateValues_Range")
            => th'[t].got = th[t].arg
       /\ (th[t].pc = "IterateValues_Visit" /\ th'[t].pc = "done")
            => th'[t].got = SubSeq(th[t].arg, 1, Len(th'[t].got))]_vars

\* A traversal is about to clone the slice of a key that held <<1, MaxVal>>
\* when Range called with it and got 2 inserted since.
C17_Witness ==
  \E t \in Threads :
    /\ th[t].pc = "IterateValues_Clone"
    /\ th[t].snaps = {<<1, MaxVal>>, <<1, 2, MaxVal>>}
    /\ SeqOf(St, th[t].key) = <<1, 2, MaxVal>>

\* C18: AddSlice(key, values) leaves the caller's values as they were: after
\* the call the caller reads from its slice the elements it passed, in the
\* order it passed them, and the slice stored under key is in another array.
C18_BatchUntouched ==
  [][last'.op = "AddSlice" =>
       /\ last'.ret = last'.arg
       /\ LET arg == NewArray(mem, last'.arg)
              S2 == AddSliceOp([St EXCEPT !.mem = arg.mem], last'.key, arg.hdr)
              stored == S2.cell[S2.data[last'.key]].arr
          IN stored = Nil \/ stored # arg.hdr.arr]_vars

\* C19: in both variants a visitor that calls Add or DeleteKey on the map it
\* is visiting gets its call done, and the traversal returns.
C19_VisitorReturns ==
  \A t \in Threads :
    (th[t].pc \in {"Visitor_Lock", "Visitor_Body"}) ~> (th[t].pc = "idle")

\* C20: driven by the same calls, the two variants hold the same key ->
\* sequence mapping after every call, return the same results, and the values
\* the caller got from their GetKey read the same.
C20_VariantsAgree ==
  /\ SeqsOf(St) = SeqsOf(PSt)
  /\ last.op \in {"Exist", "Count", "GetKey"} => last.ret[1] = last.ret[2]
  /\ Got(St, held) = Got(PSt, plain.held)

=============================================================================
